---- MODULE Spec2Model ----
\* feroxbuster: target URL resolution (src/src/url.rs) and layered scan
\* configuration (src/src/config.rs).
\*
\* A Rust String is modelled as a sequence of one-character strings, so that
\* "http://h" is <<"h","t","t","p",":","/","/","h">>.
EXTENDS Integers, Sequences, FiniteSets, TLC

\* ------------------------------------------------------------------ bounds

\* longest word enumerated over WordChars
MaxWordLen == 2

\* most settings (config-file keys plus command-line flags) given in one run
MaxSettings == 2

\* longest path-and-query suffix enumerated for the targets of depth()
MaxPathLen == 3

\* workers that read CONFIGURATION
MaxWorkers == 2

\* ------------------------------------------------------- string primitives

Alpha == {"a","b","c","d","e","f","g","h","i","j","k","l","m",
          "n","o","p","q","r","s","t","u","v","w","x","y","z"}

Digits == {"0","1","2","3","4","5","6","7","8","9"}

\* str::starts_with
StartsWith(s, p) == Len(s) >= Len(p) /\ SubSeq(s, 1, Len(p)) = p

\* str::ends_with
EndsWith(s, p) == Len(s) >= Len(p) /\ SubSeq(s, Len(s) - Len(p) + 1, Len(s)) = p

\* the string without its first n characters
Drop(s, n) == SubSeq(s, n + 1, Len(s))

\* index of the first character of s that is in S, Len(s)+1 when there is none
FirstIn(s, S) ==
    LET I == {i \in 1..Len(s) : s[i] \in S}
    IN  IF I = {} THEN Len(s) + 1 ELSE CHOOSE i \in I : \A j \in I : i <= j

\* index of the first character of s that is not in S, Len(s)+1 when all are
FirstNotIn(s, S) ==
    LET I == {i \in 1..Len(s) : s[i] \notin S}
    IN  IF I = {} THEN Len(s) + 1 ELSE CHOOSE i \in I : \A j \in I : i <= j

\* str::trim_start_matches(c)
TrimStartMatches(s, c) == Drop(s, FirstNotIn(s, {c}) - 1)

\* str::split on any character of seps
RECURSIVE Split(_, _)
Split(s, seps) ==
    LET i == FirstIn(s, seps)
    IN  IF i > Len(s) THEN <<s>>
        ELSE <<SubSeq(s, 1, i - 1)>> \o Split(Drop(s, i), seps)

\* concatenation of a sequence of strings
RECURSIVE Concat(_)
Concat(ss) == IF ss = <<>> THEN <<>> ELSE Head(ss) \o Concat(Tail(ss))

\* ------------------------------------------------- reqwest::Url (url crate)
\* The inputs of the model hold no '#', '@', '%', '[', whitespace, control or
\* upper-case characters and never spell the scheme "file"; the parser below
\* is the url crate's parser on the remaining inputs.

HTTP == <<"h","t","t","p">>

SpecialSchemes ==
    { HTTP, HTTP \o <<"s">>, <<"w","s">>, <<"w","s","s">>, <<"f","t","p">> }

SchemeChars == Alpha \cup Digits \cup {"+", "-", "."}

\* characters no host may hold
ForbiddenHostChars == {"#", "/", ":", "?", "@", "[", "\\", "]", " ", "%"}

EmptyUrl ==
    [scheme |-> <<>>, hasHost |-> FALSE, host |-> <<>>, port |-> <<>>,
     path |-> <<>>, hasQuery |-> FALSE, query |-> <<>>]

\* Result<Url>
Ok(u) == [ok |-> TRUE, url |-> u]
Err == [ok |-> FALSE, url |-> EmptyUrl]

\* Parser::parse_scheme: the length of the scheme when s starts with
\* alpha (alpha | digit | + | - | .)* ':', and 0 otherwise
SchemeLen(s) ==
    LET i == FirstNotIn(s, SchemeChars)
    IN  IF Len(s) > 0 /\ s[1] \in Alpha /\ i <= Len(s) /\ s[i] = ":"
        THEN i - 1 ELSE 0

\* the path separators of a scheme type: '\' counts as '/' in special URLs
Seps(special) == IF special THEN {"/", "\\"} ELSE {"/"}

\* Parser::parse_path: the segments of input pushed onto the segments in
\* stack, ".." popping one, "." pushing none, and a final dot segment leaving
\* an empty last segment
RECURSIVE PushSegments(_, _, _)
PushSegments(stack, segs, i) ==
    IF i > Len(segs) THEN stack
    ELSE LET s == segs[i]
             last == i = Len(segs)
             popped == IF stack = <<>> THEN <<>>
                       ELSE SubSeq(stack, 1, Len(stack) - 1)
             next == IF s = <<".", ".">>
                     THEN IF last THEN Append(popped, <<>>) ELSE popped
                     ELSE IF s = <<".">>
                     THEN IF last THEN Append(stack, <<>>) ELSE stack
                     ELSE Append(stack, s)
         IN  PushSegments(next, segs, i + 1)

\* the path string of a sequence of segments: "/" before each
PathOf(segs) == Concat([i \in 1..Len(segs) |-> <<"/">> \o segs[i]])

\* Url::path_segments of a path that starts with '/'
SegmentsOf(path) == Split(Drop(path, 1), {"/"})

\* the input up to its query, and the query ('?' starts it)
BeforeQuery(input) == SubSeq(input, 1, FirstIn(input, {"?"}) - 1)
HasQuery(input) == FirstIn(input, {"?"}) <= Len(input)
QueryOf(input) == Drop(input, FirstIn(input, {"?"}))

\* Parser::parse_path_start and with_query_and_fragment: the url u completed
\* with the path and query found in input, the path resolved onto stack
WithPath(u, special, stack, input) ==
    LET p == BeforeQuery(input)
        body == IF p # <<>> /\ p[1] \in Seps(special) THEN Drop(p, 1) ELSE p
        segs == PushSegments(stack, Split(body, Seps(special)), 1)
        path == IF ~special /\ p = <<>> /\ stack = <<>> THEN <<>>
                ELSE PathOf(segs)
    IN  Ok([u EXCEPT !.path = path, !.hasQuery = HasQuery(input),
                     !.query = QueryOf(input)])

\* Parser::after_double_slash: host, port, then path and query
AfterDoubleSlash(scheme, special, input) ==
    LET hostEnd == FirstIn(input, {":", "/", "?", "#"} \cup Seps(special))
        host == SubSeq(input, 1, hostEnd - 1)
        afterHost == Drop(input, hostEnd - 1)
        hasPort == afterHost # <<>> /\ afterHost[1] = ":"
        portEnd == FirstNotIn(Drop(afterHost, 1), Digits)
        port == IF hasPort THEN SubSeq(afterHost, 2, portEnd) ELSE <<>>
        afterPort == IF hasPort THEN Drop(afterHost, portEnd) ELSE afterHost
        u == [EmptyUrl EXCEPT !.scheme = scheme, !.hasHost = TRUE,
                              !.host = host, !.port = port]
    IN  IF special /\ host = <<>> THEN Err                     \* EmptyHost
        ELSE IF \E i \in 1..Len(host) : host[i] \in ForbiddenHostChars
        THEN Err                                   \* InvalidDomainCharacter
        ELSE IF hasPort /\ host = <<>> THEN Err                \* EmptyHost
        ELSE IF hasPort /\ afterPort # <<>>
                /\ afterPort[1] \notin {"/", "\\", "?", "#"}
        THEN Err                                              \* InvalidPort
        ELSE WithPath(u, special, <<>>, afterPort)

\* Parser::parse_non_special: authority after "//", a path after "/", and
\* otherwise a cannot-be-a-base URL whose path is the rest, kept as it is
ParseNonSpecial(scheme, input) ==
    LET u == [EmptyUrl EXCEPT !.scheme = scheme]
    IN  IF StartsWith(input, <<"/", "/">>)
        THEN AfterDoubleSlash(scheme, FALSE, Drop(input, 2))
        ELSE IF StartsWith(input, <<"/">>)
        THEN WithPath(u, FALSE, <<>>, input)
        ELSE Ok([u EXCEPT !.path = BeforeQuery(input),
                          !.hasQuery = HasQuery(input),
                          !.query = QueryOf(input)])

\* Url::cannot_be_a_base
CannotBeABase(u) == ~u.hasHost /\ ~StartsWith(u.path, <<"/">>)

\* Parser::parse_relative against a base that can be one
ParseRelative(base, input) ==
    LET special == base.scheme \in SpecialSchemes
        slashes == FirstNotIn(input, Seps(TRUE)) - 1
        u == [base EXCEPT !.hasQuery = FALSE, !.query = <<>>]
        dir == LET segs == SegmentsOf(base.path)
               IN  SubSeq(segs, 1, Len(segs) - 1)
    IN  IF input = <<>>
        THEN Ok(base)
        ELSE IF input[1] = "?"
        THEN Ok([base EXCEPT !.hasQuery = TRUE, !.query = Drop(input, 1)])
        ELSE IF slashes >= 2
        THEN AfterDoubleSlash(base.scheme, special,
                 IF StartsWith(input, <<"/", "/">>) THEN Drop(input, 2)
                 ELSE Drop(input, slashes))
        ELSE IF slashes = 1
        THEN WithPath(u, special, <<>>, input)
        ELSE WithPath(u, special, dir, input)

\* Parser::parse_url without a base: Url::parse
UrlParse(input) ==
    LET n == SchemeLen(input)
        scheme == SubSeq(input, 1, n)
        rest == Drop(input, n + 1)
    IN  IF n = 0 THEN Err                         \* RelativeUrlWithoutBase
        ELSE IF scheme \in SpecialSchemes
        THEN AfterDoubleSlash(scheme, TRUE,
                              Drop(rest, FirstNotIn(rest, Seps(TRUE)) - 1))
        ELSE ParseNonSpecial(scheme, rest)

\* Parser::parse_url with a base: Url::join
UrlJoin(base, input) ==
    LET n == SchemeLen(input)
        scheme == SubSeq(input, 1, n)
        rest == Drop(input, n + 1)
        slashes == FirstNotIn(rest, Seps(TRUE)) - 1
    IN  IF n = 0
        THEN IF CannotBeABase(base) THEN Err
             ELSE ParseRelative(base, input)
        ELSE IF scheme \in SpecialSchemes
        THEN IF slashes < 2 /\ base.scheme = scheme
             THEN ParseRelative(base, rest)
             ELSE AfterDoubleSlash(scheme, TRUE, Drop(rest, slashes))
        ELSE ParseNonSpecial(scheme, rest)

\* Url::as_str
UrlAsStr(u) ==
    u.scheme \o <<":">>
    \o (IF u.hasHost THEN <<"/", "/">> \o u.host ELSE <<>>)
    \o (IF u.port # <<>> THEN <<":">> \o u.port ELSE <<>>)
    \o u.path
    \o (IF u.hasQuery THEN <<"?">> \o u.query ELSE <<>>)

\* form_urlencoded::Serializer::extend_pairs: k=v joined by '&'
RECURSIVE EncodePairs(_)
EncodePairs(pairs) ==
    IF pairs = <<>> THEN <<>>
    ELSE Head(pairs)[1] \o <<"=">> \o Head(pairs)[2]
         \o (IF Len(pairs) > 1 THEN <<"&">> ELSE <<>>)
         \o EncodePairs(Tail(pairs))

\* Url::query_pairs_mut().extend_pairs: the pairs appended to the query of r
ExtendPairs(r, pairs) ==
    IF ~r.ok THEN Err
    ELSE Ok([r.url EXCEPT
               !.hasQuery = TRUE,
               !.query = IF r.url.hasQuery /\ r.url.query # <<>>
                         THEN r.url.query \o <<"&">> \o EncodePairs(pairs)
                         ELSE EncodePairs(pairs)])

\* Url::parse_with_params: parse, then append the pairs to the query
UrlParseWithParams(input, pairs) == ExtendPairs(UrlParse(input), pairs)

\* scheme, host and port of a URL
Authority(u) == <<u.scheme, u.host, u.port>>

\* ------------------------------------------------ FeroxUrl (src/src/url.rs)

\* Option<&str>
None == [some |-> FALSE, val |-> <<>>]
Some(e) == [some |-> TRUE, val |-> e]

\* a normalize that appends a slash whether or not there is one
NormalizeAppends(t) == t \o <<"/">>

\* FeroxUrl::normalize: the target with a trailing slash
Normalize(t) == IF EndsWith(t, <<"/">>) THEN t ELSE t \o <<"/">>

\* Url::path_segments: None for a URL whose path does not start with '/'
PathSegments(u) ==
    IF StartsWith(u.path, <<"/">>) THEN Some(SegmentsOf(u.path)) ELSE None

\* Result<usize>
DepthOk(n) == [ok |-> TRUE, depth |-> n]
DepthErr == [ok |-> FALSE, depth |-> 0]

\* a depth() that counts no segments where there are none to count
DepthOfLenient(parsed) ==
    IF ~parsed.ok THEN DepthErr
    ELSE DepthOk(Len(PathSegments(parsed.url).val))

\* depth() after Url::parse(&target): an error when the parse failed or the
\* URL has no path segments, and the number of segments otherwise
DepthOf(parsed) ==
    IF ~parsed.ok THEN DepthErr
    ELSE IF ~PathSegments(parsed.url).some THEN DepthErr
    ELSE DepthOk(Len(PathSegments(parsed.url).val))

\* FeroxUrl::depth
Depth(t) == DepthOf(UrlParse(Normalize(t)))

\* the string format() parses as the base of the join
EffectiveBase(t, w) ==
    IF w = <<>> THEN t
    ELSE IF ~EndsWith(t, <<"/">>) THEN t \o <<"/">>
    ELSE t

\* the string format() joins onto the base
EffectiveWord(cfg, w, ext) ==
    IF ext.some THEN w \o <<".">> \o ext.val
    ELSE IF cfg.add_slash /\ ~EndsWith(w, <<"/">>) THEN w \o <<"/">>
    ELSE IF StartsWith(w, <<"/", "/">>) THEN TrimStartMatches(w, "/")
    ELSE w

\* the end of format(): the joined URL, with the configured query pairs
WithQueries(cfg, joined) ==
    IF ~joined.ok THEN Err
    ELSE IF cfg.queries = <<>> THEN joined
    ELSE UrlParseWithParams(UrlAsStr(joined.url), cfg.queries)

\* base_url.join(&word) of format(), after Url::parse(&url)?
JoinWord(cfg, base_url, w) ==
    IF ~base_url.ok THEN Err
    ELSE WithQueries(cfg, UrlJoin(base_url.url, w))

\* format() once the word is known not to be a URL: parse the base, join
\* the word, attach the configured query pairs
FormatJoin(t, cfg, w, ext) ==
    JoinWord(cfg, UrlParse(EffectiveBase(t, w)), EffectiveWord(cfg, w, ext))

\* format() without its guard against words that are URLs
FormatUnguarded(t, cfg, w, ext) == FormatJoin(t, cfg, w, ext)

\* FeroxUrl::format
Format(t, cfg, w, ext) ==
    IF UrlParse(w).ok THEN Err ELSE FormatJoin(t, cfg, w, ext)

\* what formatted_urls() has done so far: the URLs pushed and, in order, what
\* each step was: "ok"/"err" for a format attempt, "sent"/"send_err" for a
\* send on the stats channel
NoProgress == [urls |-> <<>>, log |-> <<>>]

\* number of entries of log that are in S
Count(log, S) == Cardinality({i \in 1..Len(log) : log[i] \in S})

\* a match that drops the failure without sending the event
AttemptSilent(acc, r, budget) ==
    IF r.ok
    THEN [urls |-> Append(acc.urls, r.url), log |-> Append(acc.log, "ok"),
          done |-> FALSE]
    ELSE [urls |-> acc.urls, log |-> Append(acc.log, "err"), done |-> FALSE]

\* one match of formatted_urls(): push the URL, or send AddError(UrlFormat);
\* the send succeeds while fewer than budget events were sent (the receiver
\* is gone after that). done is set when `?` returns the send's error
Attempt(acc, r, budget) ==
    IF r.ok
    THEN [urls |-> Append(acc.urls, r.url), log |-> Append(acc.log, "ok"),
          done |-> FALSE]
    ELSE IF Count(acc.log, {"sent"}) < budget
    THEN [urls |-> acc.urls, log |-> acc.log \o <<"err", "sent">>,
          done |-> FALSE]
    ELSE [urls |-> acc.urls, log |-> acc.log \o <<"err", "send_err">>,
          done |-> TRUE]

\* what formatted_urls() returns when a send failed, and when none did
SendFailed(a) == [ok |-> FALSE, urls |-> <<>>, log |-> a.log]
Returned(a) == [ok |-> TRUE, urls |-> a.urls, log |-> a.log]

\* the loop taking the extensions from the last to the first
RECURSIVE ExtLoopReversed(_, _, _, _, _, _)
ExtLoopReversed(t, cfg, w, i, a, budget) ==
    IF a.done THEN SendFailed(a)
    ELSE IF i > Len(cfg.extensions) THEN Returned(a)
    ELSE ExtLoopReversed(t, cfg, w, i + 1,
             Attempt(a, Format(t, cfg, w,
                        Some(cfg.extensions[Len(cfg.extensions) + 1 - i])),
                     budget),
             budget)

\* the loop going on after a send failed, the error kept for the end
RECURSIVE ExtLoopContinues(_, _, _, _, _, _)
ExtLoopContinues(t, cfg, w, i, a, budget) ==
    IF i > Len(cfg.extensions)
    THEN IF Count(a.log, {"send_err"}) > 0 THEN SendFailed(a) ELSE Returned(a)
    ELSE ExtLoopContinues(t, cfg, w, i + 1,
             Attempt(a, Format(t, cfg, w, Some(cfg.extensions[i])), budget),
             budget)

\* the for loop of formatted_urls() over config.extensions, from the i-th,
\* a being the outcome of the match before it
RECURSIVE ExtLoop(_, _, _, _, _, _)
ExtLoop(t, cfg, w, i, a, budget) ==
    IF a.done THEN SendFailed(a)
    ELSE IF i > Len(cfg.extensions) THEN Returned(a)
    ELSE ExtLoop(t, cfg, w, i + 1,
                 Attempt(a, Format(t, cfg, w, Some(cfg.extensions[i])),
                         budget),
                 budget)

\* FeroxUrl::formatted_urls: Result<Vec<Url>> and the steps taken
FormattedUrls(t, cfg, w, budget) ==
    ExtLoop(t, cfg, w, 1,
            Attempt(NoProgress, Format(t, cfg, w, None), budget), budget)

\* ------------------------------------- Configuration (src/src/config.rs)
\* Header specs and numeric arguments are sequences of characters; the other
\* strings are only stored and compared, and are TLA+ strings.

\* a value that may not have been given
Unset(v) == [set |-> FALSE, val |-> v]
Given(v) == [set |-> TRUE, val |-> v]

\* timeout()
DefaultTimeout == 7

\* threads()
DefaultThreads == 50

\* statuscodes(): DEFAULT_RESPONSE_CODES as u16
DefaultStatusCodes == <<200, 204, 301, 302, 307, 308, 401, 403, 405>>

\* wordlist(): DEFAULT_WORDLIST
DefaultWordlist == "DEFAULT_WORDLIST"

\* useragent(): "feroxbuster/VERSION"
DefaultUserAgent == "feroxbuster/VERSION"

\* Option<&str> of a proxy address
NoProxy == [some |-> FALSE, val |-> ""]
SomeProxy(p) == [some |-> TRUE, val |-> p]

\* client::initialize: the client handle, known by what it was built from
ClientInitialize(timeout, useragent, follow_redirects, insecure, headers, proxy) ==
    [timeout |-> timeout, useragent |-> useragent,
     follow_redirects |-> follow_redirects, insecure |-> insecure,
     headers |-> headers, proxy |-> proxy]

\* the client Configuration::default() builds
DefaultClient ==
    ClientInitialize(DefaultTimeout, DefaultUserAgent, FALSE, FALSE, {},
                     NoProxy)

\* Configuration::default()
DefaultConfiguration ==
    [client |-> DefaultClient,
     timeout |-> DefaultTimeout,
     useragent |-> DefaultUserAgent,
     quiet |-> FALSE,
     verbosity |-> 0,
     insecure |-> FALSE,
     norecursion |-> FALSE,
     follow_redirects |-> FALSE,
     proxy |-> "",
     output |-> "",
     target_url |-> "",
     extensions |-> <<>>,
     headers |-> {},
     threads |-> DefaultThreads,
     wordlist |-> DefaultWordlist,
     statuscodes |-> DefaultStatusCodes]

\* the value serde gives a field: the file's when the file names the key, and
\* the #[serde(default)] otherwise
Field(key, default) == IF key.set THEN key.val ELSE default

\* toml::from_str into Configuration of a well-formed file
Deserialize(file) ==
    [wordlist |-> Field(file.wordlist, DefaultWordlist),
     proxy |-> Field(file.proxy, ""),
     statuscodes |-> Field(file.statuscodes, DefaultStatusCodes),
     threads |-> Field(file.threads, DefaultThreads),
     timeout |-> Field(file.timeout, DefaultTimeout),
     verbosity |-> Field(file.verbosity, 0),
     quiet |-> Field(file.quiet, FALSE),
     output |-> Field(file.output, ""),
     useragent |-> Field(file.useragent, DefaultUserAgent),
     follow_redirects |-> Field(file.follow_redirects, FALSE),
     insecure |-> Field(file.insecure, FALSE),
     extensions |-> Field(file.extensions, <<>>),
     headers |-> Field(file.headers, {}),
     norecursion |-> Field(file.norecursion, FALSE)]

\* parse_config that takes a file it cannot parse for no file
ParseConfigLenient(file) ==
    [status |-> IF file.kind = "valid" THEN "some" ELSE "none",
     settings |-> Deserialize(file)]

\* Configuration::parse_config: None when read_to_string fails, a panic of
\* the unwrap when the text is not the TOML of a Configuration
ParseConfig(file) ==
    [status |-> IF file.kind \in {"absent", "unreadable"} THEN "none"
                ELSE IF file.kind = "malformed" THEN "panic"
                ELSE "some",
     settings |-> Deserialize(file)]

\* new(): the values of the config file, when there is one, over the defaults
MergeFile(c, parsed) ==
    IF parsed.status # "some" THEN c
    ELSE [c EXCEPT !.threads = parsed.settings.threads,
                   !.wordlist = parsed.settings.wordlist,
                   !.statuscodes = parsed.settings.statuscodes,
                   !.proxy = parsed.settings.proxy,
                   !.timeout = parsed.settings.timeout,
                   !.verbosity = parsed.settings.verbosity,
                   !.quiet = parsed.settings.quiet,
                   !.output = parsed.settings.output,
                   !.useragent = parsed.settings.useragent,
                   !.follow_redirects = parsed.settings.follow_redirects,
                   !.insecure = parsed.settings.insecure,
                   !.extensions = parsed.settings.extensions,
                   !.headers = parsed.settings.headers,
                   !.norecursion = parsed.settings.norecursion]

\* the number a digit stands for
DigitVal(c) ==
    CHOOSE n \in 0..9 : <<"0","1","2","3","4","5","6","7","8","9">>[n + 1] = c

\* the number a string of digits stands for
RECURSIVE Decimal(_)
Decimal(s) ==
    IF s = <<>> THEN 0
    ELSE 10 * Decimal(SubSeq(s, 1, Len(s) - 1)) + DigitVal(s[Len(s)])

\* value_t!(.., usize) and value_t!(.., u64): str::parse of a number
ParseNum(s) ==
    IF s # <<>> /\ \A i \in 1..Len(s) : s[i] \in Digits
    THEN [ok |-> TRUE, val |-> Decimal(s)]
    ELSE [ok |-> FALSE, val |-> 0]

\* StatusCode::from_bytes(..).as_u16(): three digits, the first not 0
ParseStatus(s) ==
    IF Len(s) = 3 /\ (\A i \in 1..3 : s[i] \in Digits) /\ s[1] # "0"
    THEN [ok |-> TRUE, val |-> Decimal(s)]
    ELSE [ok |-> FALSE, val |-> 0]

\* str::trim
Whitespace == {" ", "\t"}
Trim(s) ==
    LET a == FirstNotIn(s, Whitespace)
        J == {j \in 1..Len(s) : s[j] \notin Whitespace}
    IN  IF J = {} THEN <<>>
        ELSE SubSeq(s, a, CHOOSE j \in J : \A k \in J : k <= j)

\* val.split(":") of a header spec
HeaderParts(spec) == Split(spec, {":"})

\* the name and the value new() stores for a header spec: the first and the
\* second item of the split, trimmed
HeaderName(spec) == Trim(HeaderParts(spec)[1])
HeaderValue(spec) == Trim(HeaderParts(spec)[2])

\* HashMap::insert
Insert(m, name, value) == {p \in m : p[1] # name} \cup {<<name, value>>}

\* HashMap lookup: the values stored under name (one at most)
Lookup(m, name) == {p[2] : p \in {q \in m : q[1] = name}}

\* new(): how it ends before returning when an argument is bad: "exit" for a
\* bad number or status code, "panic" for the unwrap of a header spec without
\* a colon, "none" when all arguments are good
ArgsFailure(args) ==
    IF args.threads.set /\ ~ParseNum(args.threads.val).ok THEN "exit"
    ELSE IF args.statuscodes.set
            /\ \E i \in 1..Len(args.statuscodes.val) :
                  ~ParseStatus(args.statuscodes.val[i]).ok
    THEN "exit"
    ELSE IF args.timeout.set /\ ~ParseNum(args.timeout.val).ok THEN "exit"
    ELSE IF args.headers.set
            /\ \E i \in 1..Len(args.headers.val) :
                  Len(HeaderParts(args.headers.val[i])) < 2
    THEN "panic"
    ELSE "none"

\* the options merged with a value of the file winning over the command line
MergeOptionsFileWins(c, args) ==
    [c EXCEPT
       !.threads = IF args.threads.set /\ @ = DefaultThreads
                   THEN ParseNum(args.threads.val).val ELSE @,
       !.wordlist = IF args.wordlist.set THEN args.wordlist.val ELSE @,
       !.output = IF args.output.set THEN args.output.val ELSE @,
       !.statuscodes =
           IF args.statuscodes.set
           THEN [i \in 1..Len(args.statuscodes.val) |->
                    ParseStatus(args.statuscodes.val[i]).val]
           ELSE @,
       !.extensions = IF args.extensions.set THEN args.extensions.val ELSE @,
       !.target_url = args.url,
       !.proxy = IF args.proxy.set THEN args.proxy.val ELSE @,
       !.useragent = IF args.useragent.set THEN args.useragent.val ELSE @,
       !.timeout = IF args.timeout.set
                   THEN ParseNum(args.timeout.val).val ELSE @]

\* new(): the options that take a value, each overwritten when it was given
MergeOptions(c, args) ==
    [c EXCEPT
       !.threads = IF args.threads.set
                   THEN ParseNum(args.threads.val).val ELSE @,
       !.wordlist = IF args.wordlist.set THEN args.wordlist.val ELSE @,
       !.output = IF args.output.set THEN args.output.val ELSE @,
       !.statuscodes =
           IF args.statuscodes.set
           THEN [i \in 1..Len(args.statuscodes.val) |->
                    ParseStatus(args.statuscodes.val[i]).val]
           ELSE @,
       !.extensions = IF args.extensions.set THEN args.extensions.val ELSE @,
       !.target_url = args.url,
       !.proxy = IF args.proxy.set THEN args.proxy.val ELSE @,
       !.useragent = IF args.useragent.set THEN args.useragent.val ELSE @,
       !.timeout = IF args.timeout.set
                   THEN ParseNum(args.timeout.val).val ELSE @]

\* the flags assigned whether or not they were given
MergeFlagsUnguarded(c, args) ==
    [c EXCEPT
       !.quiet = args.quiet,
       !.verbosity = args.verbosity % 256,
       !.follow_redirects = args.follow_redirects,
       !.norecursion = args.norecursion,
       !.insecure = args.insecure]

\* new(): the flags, each overwritten only when it was given
MergeFlags(c, args) ==
    [c EXCEPT
       !.quiet = IF args.quiet THEN args.quiet ELSE @,
       !.verbosity = IF args.verbosity > 0 THEN args.verbosity % 256 ELSE @,
       !.follow_redirects = IF args.follow_redirects
                            THEN args.follow_redirects ELSE @,
       !.norecursion = IF args.norecursion THEN args.norecursion ELSE @,
       !.insecure = IF args.insecure THEN args.insecure ELSE @]

\* new(): the header specs inserted in order, from the i-th
RECURSIVE InsertHeaders(_, _, _)
InsertHeaders(m, specs, i) ==
    IF i > Len(specs) THEN m
    ELSE InsertHeaders(Insert(m, HeaderName(specs[i]), HeaderValue(specs[i])),
                       specs, i + 1)

\* new(): the headers of the command line, over those of the file
MergeHeaders(c, args) ==
    IF ~args.headers.set THEN c
    ELSE [c EXCEPT !.headers = InsertHeaders(@, args.headers.val, 1)]

\* the test for a rebuild that leaves the headers out
NeedsRebuildButForHeaders(c) ==
    \/ c.proxy # ""
    \/ c.timeout # DefaultTimeout
    \/ c.useragent # DefaultUserAgent
    \/ c.follow_redirects
    \/ c.insecure

\* new(): whether a setting of the client differs from its default
NeedsRebuild(c) ==
    \/ c.proxy # ""
    \/ c.timeout # DefaultTimeout
    \/ c.useragent # DefaultUserAgent
    \/ c.follow_redirects
    \/ c.insecure
    \/ Cardinality(c.headers) > 0

\* new(): the client built again from the merged values
RebuiltClient(c) ==
    ClientInitialize(c.timeout, c.useragent, c.follow_redirects, c.insecure,
                     c.headers,
                     IF c.proxy = "" THEN NoProxy ELSE SomeProxy(c.proxy))

\* new(): the end, with the client built again when NeedsRebuild
Finish(c) ==
    IF NeedsRebuild(c)
    THEN [outcome |-> "returned",
          config |-> [c EXCEPT !.client = RebuiltClient(c)],
          calls |-> <<DefaultClient, RebuiltClient(c)>>]
    ELSE [outcome |-> "returned", config |-> c, calls |-> <<DefaultClient>>]

\* new() ending without a Configuration
Terminated(how) ==
    [outcome |-> how, config |-> DefaultConfiguration,
     calls |-> <<DefaultClient>>]

\* new() after parse_config
NewWith(parsed, args) ==
    IF parsed.status = "panic" THEN Terminated("panic")
    ELSE IF ArgsFailure(args) # "none" THEN Terminated(ArgsFailure(args))
    ELSE Finish(MergeHeaders(
                  MergeFlags(
                    MergeOptions(MergeFile(DefaultConfiguration, parsed),
                                 args),
                    args),
                  args))

\* Configuration::new: how it ends, the Configuration it returns and the
\* calls of client::initialize it made
New(file, args) == NewWith(ParseConfig(file), args)

\* ------------------------------------------------------------------ inputs

WordChars == {"w", "/", "\\", ":"}

\* words with a special scheme, dot segments and the words of the tests
ExtraWords ==
    { <<"w","s",":">>, <<"w","s",":","w">>, <<"w","s",":","/","/","w">>,
      HTTP \o <<":">>, HTTP \o <<":","/","/","s">>,
      <<".",".">>, <<".",".","/","w">>,
      <<"/","/","w">>, <<"/","\\","w">>, <<"/","/",":">>,
      <<"/","/","w","/","w","w">> }

Words == UNION {[1..n -> WordChars] : n \in 0..MaxWordLen} \cup ExtraWords

Targets ==
    { HTTP \o <<":","/","/","h">>,
      HTTP \o <<":","/","/","h","/","a">>,
      HTTP \o <<":","/","/","h","/","a","/">>,
      <<>>,
      <<"w",":","w">> }

\* the characters after "http://h" in the targets of depth()
PathChars == {"a", "/", "?", "."}

\* targets of normalize() and depth(): "http://h" and what follows it, the
\* empty string, a relative reference, URLs that cannot be a base or have no
\* path, and a URL with a query
DepthTargets ==
    { HTTP \o <<":","/","/","h">> \o p :
        p \in UNION {[1..n -> PathChars] : n \in 0..MaxPathLen} }
    \cup { <<>>, <<"h","/","a">>, <<"w",":","w">>,
           <<"w",":","/","/","h","?","a">>,
           HTTP \o <<":","/","/","h","/","a","?","q","=","v">> }

ExtensionLists == { <<>>, <<<<"j">>, <<"p">>>> }

QueryLists == { <<>>, << <<<<"q">>, <<"v">>>> >> }

\* the config file: whether feroxbuster.toml is there ("absent"), cannot be
\* read as text ("unreadable"), is not the TOML of a Configuration
\* ("malformed") or is ("valid"), and the keys it names
NoFile ==
    [kind |-> "absent",
     threads |-> Unset(0), wordlist |-> Unset(""),
     statuscodes |-> Unset(<<>>), proxy |-> Unset(""), timeout |-> Unset(0),
     verbosity |-> Unset(0), quiet |-> Unset(FALSE), output |-> Unset(""),
     useragent |-> Unset(""), follow_redirects |-> Unset(FALSE),
     insecure |-> Unset(FALSE), extensions |-> Unset(<<>>),
     headers |-> Unset({}), norecursion |-> Unset(FALSE)]

\* the command line with the required url alone
NoArgs ==
    [url |-> "http://localhost",
     threads |-> Unset(<<>>), wordlist |-> Unset(""), output |-> Unset(""),
     statuscodes |-> Unset(<<>>), extensions |-> Unset(<<>>),
     quiet |-> FALSE, verbosity |-> 0,
     proxy |-> Unset(""), useragent |-> Unset(""), timeout |-> Unset(<<>>),
     follow_redirects |-> FALSE, norecursion |-> FALSE, insecure |-> FALSE,
     headers |-> Unset(<<>>)]

\* the inputs of E with key k of the file set to a value of V
FileKey(E, k, V) ==
    {[e EXCEPT !.file[k] = Given(v),
               !.file.kind = IF @ = "absent" THEN "valid" ELSE @] :
        e \in E, v \in V}

\* the inputs of E with the file of a kind of V
FileKind(E, V) == {[e EXCEPT !.file.kind = v] : e \in E, v \in V}

\* the inputs of E with option k of the command line given a value of V
ArgOption(E, k, V) == {[e EXCEPT !.args[k] = Given(v)] : e \in E, v \in V}

\* the inputs of E with flag k of the command line given, v its value
ArgFlag(E, k, v) == {[e EXCEPT !.args[k] = v] : e \in E}

\* header specs: "a: b", "a:b:c", "ab", " a :w "
HeaderSpecs ==
    { << <<"a", ":", " ", "b">> >>,
      << <<"a", ":", "b", ":", "c">> >>,
      << <<"a", "b">> >>,
      << <<"c", ":", "b">>, <<" ", "c", " ", ":", "w", " ">> >> }

\* the inputs of E, and those with one more setting
OneMore(E) ==
    E \cup FileKind(E, {"unreadable", "malformed", "valid"})
      \cup FileKey(E, "threads", {40})
      \cup FileKey(E, "wordlist", {"/some/path"})
      \cup FileKey(E, "statuscodes", {<<201, 301, 401>>})
      \cup FileKey(E, "proxy", {"http://127.0.0.1:8080"})
      \cup FileKey(E, "timeout", {5})
      \cup FileKey(E, "verbosity", {1})
      \cup FileKey(E, "quiet", {TRUE})
      \cup FileKey(E, "output", {"/some/otherpath"})
      \cup FileKey(E, "useragent", {"agent/file"})
      \cup FileKey(E, "follow_redirects", {TRUE})
      \cup FileKey(E, "insecure", {TRUE})
      \cup FileKey(E, "extensions", {<<"html", "php", "js">>})
      \cup FileKey(E, "headers", {{<< <<"s">>, <<"t">> >>}})
      \cup FileKey(E, "norecursion", {TRUE})
      \cup ArgOption(E, "threads", {<<"1", "0">>, <<"x">>})
      \cup ArgOption(E, "wordlist", {"/cli/words"})
      \cup ArgOption(E, "output", {"/cli/out"})
      \cup ArgOption(E, "statuscodes",
                     { << <<"2","0","0">>, <<"4","0","4">> >>,
                       << <<"2","0","0">>, <<"9","9">> >> })
      \cup ArgOption(E, "extensions", {<<"pdf">>})
      \cup ArgOption(E, "proxy", {"http://cli:8080", ""})
      \cup ArgOption(E, "useragent", {"agent/cli", DefaultUserAgent})
      \cup ArgOption(E, "timeout", {<<"1", "0">>, <<"7">>, <<"x">>})
      \cup ArgOption(E, "headers", HeaderSpecs)
      \cup ArgFlag(E, "quiet", TRUE)
      \cup ArgFlag(E, "verbosity", 2)
      \cup ArgFlag(E, "follow_redirects", TRUE)
      \cup ArgFlag(E, "norecursion", TRUE)
      \cup ArgFlag(E, "insecure", TRUE)

\* the inputs with one setting at most
LazyInputs == OneMore({[file |-> NoFile, args |-> NoArgs]})

\* the workers that read CONFIGURATION
Workers == 1..MaxWorkers

\* the inputs with n settings at most
RECURSIVE Inputs(_)
Inputs(n) ==
    IF n = 0 THEN {[file |-> NoFile, args |-> NoArgs]}
    ELSE OneMore(Inputs(n - 1))

\* -------------------------------------------------------------------- state

VARIABLES
    target,      \* FeroxUrl.target
    config,      \* handles.config: add_slash, queries, extensions
    op,          \* the call that returned last: "idle" when none is pending
    word,        \* its word
    extension,   \* its extension (format only)
    result,      \* format's Result<Url>; for formatted_urls, ok or not;
                 \* normalize's String (str); depth's Result<usize>
    urls,        \* the Vec<Url> formatted_urls returned
    log,         \* the steps formatted_urls took
    file,        \* feroxbuster.toml in the working directory
    args,        \* the matches of the command line
    started,     \* whether Configuration::new has run
    outcome,     \* how it ended: "returned", "exit" or "panic"
    configuration,  \* the Configuration it returned
    client_calls,   \* the clients client::initialize built, in order
    once,        \* the Once of CONFIGURATION: "incomplete", "running",
                 \* "complete" or "poisoned"
    pc,          \* where each worker is in its access of CONFIGURATION
    seen,        \* the Configurations each worker has read, ever
    built        \* the Configurations Configuration::new returned to the
                 \* initializer of CONFIGURATION, in order

urlVars == <<target, config, op, word, extension, result, urls, log>>

cfgVars == <<file, args, started, outcome, configuration, client_calls>>

lazyVars == <<once, pc, seen, built>>

vars == <<urlVars, cfgVars, lazyVars>>

\* CONFIGURATION before any access
NotAccessed ==
    /\ once = "incomplete"
    /\ pc = [w \in Workers |-> "idle"]
    /\ seen = [w \in Workers |-> {}]
    /\ built = <<>>

\* no Configuration::new yet
NotStarted ==
    /\ started = FALSE
    /\ outcome = "none"
    /\ configuration = DefaultConfiguration
    /\ client_calls = <<>>

Init ==
    /\ target \in Targets
    /\ config \in [add_slash : BOOLEAN, queries : QueryLists,
                   extensions : ExtensionLists]
    /\ op = "idle"
    /\ word = <<>>
    /\ extension = None
    /\ result = Err
    /\ urls = <<>>
    /\ log = <<>>
    /\ file = NoFile
    /\ args = NoArgs
    /\ NotStarted
    /\ NotAccessed

\* a caller runs self.format(w, e)
CallFormat(w, e) ==
    /\ op = "idle"
    /\ op' = "format"
    /\ word' = w
    /\ extension' = e
    /\ result' = Format(target, config, w, e)
    /\ UNCHANGED <<target, config, urls, log, cfgVars, lazyVars>>

\* a caller runs self.formatted_urls(w); the stats receiver takes budget
\* events before it goes away
CallFormattedUrls(w, budget) ==
    /\ op = "idle"
    /\ \E r \in {FormattedUrls(target, config, w, budget)} :
           /\ result' = [ok |-> r.ok, url |-> EmptyUrl]
           /\ urls' = r.urls
           /\ log' = r.log
    /\ op' = "formatted_urls"
    /\ word' = w
    /\ extension' = None
    /\ UNCHANGED <<target, config, cfgVars, lazyVars>>

\* the caller takes the returned value and the stats handler the events; a
\* caller that got the send's error has no receiver to go on with
Return ==
    /\ op # "idle"
    /\ Count(log, {"send_err"}) = 0
    /\ op' = "idle"
    /\ word' = <<>>
    /\ extension' = None
    /\ result' = Err
    /\ urls' = <<>>
    /\ log' = <<>>
    /\ UNCHANGED <<target, config, cfgVars, lazyVars>>

Next ==
    \/ \E w \in Words : \E e \in {None, Some(<<"j">>)} : CallFormat(w, e)
    \/ \E w \in Words : \E budget \in 0..3 : CallFormattedUrls(w, budget)
    \/ Return

Spec == Init /\ [][Next]_vars

\* the process starts with some config file and some command line
ConfigInit ==
    /\ \E e \in Inputs(MaxSettings) : file = e.file /\ args = e.args
    /\ NotStarted
    /\ NotAccessed
    /\ target = <<>>
    /\ config = [add_slash |-> FALSE, queries |-> <<>>, extensions |-> <<>>]
    /\ op = "idle"
    /\ word = <<>>
    /\ extension = None
    /\ result = Err
    /\ urls = <<>>
    /\ log = <<>>

\* Configuration::new() runs
CallNew ==
    /\ ~started
    /\ started' = TRUE
    /\ \E r \in {New(file, args)} :
           /\ outcome' = r.outcome
           /\ configuration' = r.config
           /\ client_calls' = r.calls
    /\ UNCHANGED <<file, args, urlVars, lazyVars>>

ConfigNext == CallNew

ConfigSpec == ConfigInit /\ [][ConfigNext]_vars

\* a FeroxUrl of some target, with nothing configured
DepthInit ==
    /\ target \in DepthTargets
    /\ config = [add_slash |-> FALSE, queries |-> <<>>, extensions |-> <<>>]
    /\ op = "idle"
    /\ word = <<>>
    /\ extension = None
    /\ result = Err
    /\ urls = <<>>
    /\ log = <<>>
    /\ file = NoFile
    /\ args = NoArgs
    /\ NotStarted
    /\ NotAccessed

\* a caller runs self.normalize()
CallNormalize ==
    /\ op = "idle"
    /\ op' = "normalize"
    /\ result' = [ok |-> TRUE, str |-> Normalize(target)]
    /\ UNCHANGED <<target, config, word, extension, urls, log, cfgVars,
                   lazyVars>>

\* a caller runs self.depth()
CallDepth ==
    /\ op = "idle"
    /\ op' = "depth"
    /\ result' = Depth(target)
    /\ UNCHANGED <<target, config, word, extension, urls, log, cfgVars,
                   lazyVars>>

DepthNext ==
    \/ CallNormalize
    \/ CallDepth
    \/ Return

DepthSpec == DepthInit /\ [][DepthNext]_vars

\* a Once that lets a caller run the initializer while another runs it
MayInitializeUnsynchronized(o) == o \in {"incomplete", "running"}

\* Once::call_once: the caller that finds the Once incomplete runs the
\* initializer
MayInitialize(o) == o = "incomplete"

\* the process starts with some config file and some command line, and
\* CONFIGURATION not yet accessed
LazyInit ==
    /\ \E e \in LazyInputs : file = e.file /\ args = e.args
    /\ NotStarted
    /\ NotAccessed
    /\ target = <<>>
    /\ config = [add_slash |-> FALSE, queries |-> <<>>, extensions |-> <<>>]
    /\ op = "idle"
    /\ word = <<>>
    /\ extension = None
    /\ result = Err
    /\ urls = <<>>
    /\ log = <<>>

\* worker w dereferences CONFIGURATION: it reads when the Once is complete,
\* runs the initializer when it may, waits while another runs it, and panics
\* on a poisoned Once
CallOnce(w) ==
    /\ pc[w] = "idle"
    /\ IF once = "complete"
       THEN pc' = [pc EXCEPT ![w] = "reading"] /\ once' = once
       ELSE IF MayInitialize(once)
       THEN pc' = [pc EXCEPT ![w] = "initializing"] /\ once' = "running"
       ELSE IF once = "running"
       THEN pc' = [pc EXCEPT ![w] = "waiting"] /\ once' = once
       ELSE pc' = [pc EXCEPT ![w] = "panicked"] /\ once' = once
    /\ UNCHANGED <<seen, built, urlVars, cfgVars>>

\* worker w runs the initializer, Configuration::new(): the value is stored
\* and the Once completed; a panic poisons the Once; exit ends every worker
Initialize(w) ==
    /\ pc[w] = "initializing"
    /\ started' = TRUE
    /\ \E r \in {New(file, args)} :
           /\ outcome' = r.outcome
           /\ client_calls' = r.calls
           /\ configuration' = r.config
           /\ built' = IF r.outcome = "returned"
                       THEN Append(built, r.config) ELSE built
           /\ once' = IF r.outcome = "returned" THEN "complete"
                      ELSE IF r.outcome = "panic" THEN "poisoned"
                      ELSE once
           /\ pc' = IF r.outcome = "returned"
                    THEN [pc EXCEPT ![w] = "reading"]
                    ELSE IF r.outcome = "panic"
                    THEN [pc EXCEPT ![w] = "panicked"]
                    ELSE [v \in Workers |-> "exited"]
    /\ UNCHANGED <<seen, file, args, urlVars>>

\* worker w, waiting in call_once, is woken when the initializer is done
Wake(w) ==
    /\ pc[w] = "waiting"
    /\ once \in {"complete", "poisoned"}
    /\ pc' = [pc EXCEPT ![w] = IF once = "complete" THEN "reading"
                                ELSE "panicked"]
    /\ UNCHANGED <<once, seen, built, urlVars, cfgVars>>

\* worker w reads the Configuration behind the reference it got
Read(w) ==
    /\ pc[w] = "reading"
    /\ seen' = [seen EXCEPT ![w] = @ \cup {configuration}]
    /\ pc' = [pc EXCEPT ![w] = "idle"]
    /\ UNCHANGED <<once, built, urlVars, cfgVars>>

LazyNext ==
    \/ \E w \in Workers : CallOnce(w)
    \/ \E w \in Workers : Initialize(w)
    \/ \E w \in Workers : Wake(w)
    \/ \E w \in Workers : Read(w)

LazySpec == LazyInit /\ [][LazyNext]_vars

\* ------------------------------------------------------------------ claims

\* number of configured extensions
K == Len(config.extensions)

\* the forms formatted_urls() tries for a word, in order
Forms == <<None>> \o [i \in 1..K |-> Some(config.extensions[i])]

\* what format() gives for the i-th form of the pending word
Candidate(i) == Format(target, config, word, Forms[i])

\* the forms of the pending word that format() accepts
OkForms == {i \in 1..(K + 1) : Candidate(i).ok}

\* the j-th smallest element of a set of numbers
Nth(S, j) == CHOOSE i \in S : Cardinality({m \in S : m <= i}) = j

\* C1: a word that by itself parses as an absolute URL makes format() fail,
\* whatever the target, the extension, add_slash and the query pairs are, and
\* formatted_urls() produces no URL from it.
C1_UrlWordIsRejected ==
    /\ (op = "format" /\ UrlParse(word).ok) => ~result.ok
    /\ (op = "formatted_urls" /\ UrlParse(word).ok) => urls = <<>>

C1_Witness ==
    /\ op = "format"
    /\ UrlParse(word).ok
    /\ UrlParse(target).ok
    /\ extension.some
    /\ config.add_slash
    /\ config.queries # <<>>
    /\ ~result.ok

\* C2: with no extension and no query pairs, a successful format() of a
\* non-empty word returns a URL with the authority (scheme, host, port) of
\* the target.
C2_AuthorityOfTargetKept ==
    (/\ op = "format"
     /\ word # <<>>
     /\ ~extension.some
     /\ config.queries = <<>>
     /\ result.ok)
    => Authority(result.url) = Authority(UrlParse(Normalize(target)).url)

\* C3: formatted_urls() returns at most K+1 URLs, K+1 when no form fails, and
\* the URLs are those of the accepted forms in the order bare form, then the
\* extensions as configured.
C3_BareFirstThenExtensionsInOrder ==
    (op = "formatted_urls" /\ result.ok) =>
        /\ Len(urls) <= K + 1
        /\ (OkForms = 1..(K + 1)) => Len(urls) = K + 1
        /\ Len(urls) = Cardinality(OkForms)
        /\ \A j \in 1..Len(urls) : urls[j] = Candidate(Nth(OkForms, j)).url

C3_Witness ==
    /\ op = "formatted_urls"
    /\ result.ok
    /\ K = 2
    /\ Len(urls) = 2
    /\ urls[1] # urls[2]
    /\ ~Candidate(1).ok

\* C9: in formatted_urls() every failed format attempt is followed at once by
\* one send of a UrlFormat event and nothing else is ever sent; when it
\* returns a list, every form was attempted and the URLs returned plus the
\* events sent number K+1.
C9_OneEventPerFailedForm ==
    op = "formatted_urls" =>
        /\ \A i \in 1..Len(log) :
              log[i] = "err" =>
                  i < Len(log) /\ log[i + 1] \in {"sent", "send_err"}
        /\ \A i \in 1..Len(log) :
              log[i] \in {"sent", "send_err"} => i > 1 /\ log[i - 1] = "err"
        /\ Count(log, {"ok"}) + Count(log, {"err"}) <= K + 1
        /\ result.ok =>
              /\ Count(log, {"ok"}) + Count(log, {"err"}) = K + 1
              /\ Len(urls) + Count(log, {"sent"}) = K + 1
              /\ Count(log, {"err"}) = K + 1 - Cardinality(OkForms)

C9_Witness ==
    /\ op = "formatted_urls"
    /\ result.ok
    /\ K = 2
    /\ log = <<"err", "sent", "ok", "ok">>
    /\ Len(urls) = 2

\* C10: when a send on the stats channel fails, formatted_urls() returns the
\* failure at once: no URL list, no further attempt, no second send; and it
\* fails in no other way.
C10_SendFailurePropagates ==
    op = "formatted_urls" =>
        /\ Count(log, {"send_err"}) > 0 =>
              /\ ~result.ok
              /\ urls = <<>>
              /\ log[Len(log)] = "send_err"
              /\ Count(log, {"send_err"}) = 1
        /\ ~result.ok => Count(log, {"send_err"}) > 0

C10_Witness ==
    /\ op = "formatted_urls"
    /\ ~result.ok
    /\ K = 2
    /\ log = <<"ok", "err", "send_err">>
    /\ urls = <<>>

\* whether the config file is there, well-formed, and names key k
FileNames(k) == file.kind = "valid" /\ file[k].set

\* the value of an option that takes one: the command line's when given, else
\* the file's when the file names it, else the default
Layered(k, given, default) ==
    IF args[k].set THEN given
    ELSE IF FileNames(k) THEN file[k].val
    ELSE default

\* C4: threads, wordlist, output, statuscodes, extensions, proxy, useragent
\* and timeout of the returned Configuration are the command line's value when
\* the flag was given, else the file's when the file names the key, else the
\* default (threads 50, timeout 7); target_url is the command line's.
C4_CommandLineOverFileOverDefault ==
    (started /\ outcome = "returned") =>
        /\ configuration.threads =
              Layered("threads", Decimal(args.threads.val), 50)
        /\ configuration.timeout =
              Layered("timeout", Decimal(args.timeout.val), 7)
        /\ configuration.wordlist =
              Layered("wordlist", args.wordlist.val, DefaultWordlist)
        /\ configuration.output = Layered("output", args.output.val, "")
        /\ configuration.statuscodes =
              Layered("statuscodes",
                      [i \in 1..Len(args.statuscodes.val) |->
                          Decimal(args.statuscodes.val[i])],
                      DefaultStatusCodes)
        /\ configuration.extensions =
              Layered("extensions", args.extensions.val, <<>>)
        /\ configuration.proxy = Layered("proxy", args.proxy.val, "")
        /\ configuration.useragent =
              Layered("useragent", args.useragent.val, DefaultUserAgent)
        /\ configuration.target_url = args.url

C4_Witness ==
    /\ started
    /\ outcome = "returned"
    /\ FileNames("threads")
    /\ file.threads.val = 40
    /\ args.threads.set
    /\ configuration.threads = 10

\* C5: quiet, follow_redirects, insecure and norecursion of the returned
\* Configuration are true exactly when the file set them true or the flag was
\* given, and verbosity is the command line's count when it is not 0 and the
\* file's otherwise: an absent flag never resets the file's value.
C5_AbsentFlagKeepsFileValue ==
    (started /\ outcome = "returned") =>
        /\ \A b \in {"quiet", "follow_redirects", "insecure", "norecursion"} :
              configuration[b] = ((FileNames(b) /\ file[b].val) \/ args[b])
        /\ configuration.verbosity =
              IF args.verbosity > 0 THEN args.verbosity
              ELSE IF FileNames("verbosity") THEN file.verbosity.val
              ELSE 0

C5_Witness ==
    /\ started
    /\ outcome = "returned"
    /\ FileNames("quiet")
    /\ file.quiet.val
    /\ ~args.quiet
    /\ configuration.quiet

\* whether a client-affecting field of the returned Configuration differs
\* from its default
ClientSettingsDiffer ==
    \/ configuration.proxy # ""
    \/ configuration.timeout # 7
    \/ configuration.useragent # "feroxbuster/VERSION"
    \/ configuration.follow_redirects
    \/ configuration.insecure
    \/ configuration.headers # {}

\* C6: new() builds the client a second time exactly when a client-affecting
\* field differs from its default; otherwise the client built for the
\* defaults is kept; the second client is built once, from the merged values,
\* with a proxy exactly when the merged proxy is not empty.
C6_ClientRebuiltIffSettingsDiffer ==
    (started /\ outcome = "returned") =>
        /\ Len(client_calls) \in {1, 2}
        /\ client_calls[1] =
              [timeout |-> 7, useragent |-> "feroxbuster/VERSION",
               follow_redirects |-> FALSE, insecure |-> FALSE,
               headers |-> {}, proxy |-> NoProxy]
        /\ (Len(client_calls) = 2) <=> ClientSettingsDiffer
        /\ configuration.client = client_calls[Len(client_calls)]
        /\ ClientSettingsDiffer =>
              configuration.client =
                  [timeout |-> configuration.timeout,
                   useragent |-> configuration.useragent,
                   follow_redirects |-> configuration.follow_redirects,
                   insecure |-> configuration.insecure,
                   headers |-> configuration.headers,
                   proxy |-> [some |-> configuration.proxy # "",
                              val |-> configuration.proxy]]

C6_Witness ==
    /\ started
    /\ outcome = "returned"
    /\ FileNames("timeout")
    /\ args.proxy.set
    /\ Len(client_calls) = 2
    /\ configuration.client.proxy.some
    /\ configuration.client.timeout = 5

\* a legal HTTP status code: three digits, from 100 to 999
LegalStatus(s) ==
    /\ Len(s) = 3
    /\ \A i \in 1..3 : s[i] \in Digits
    /\ Decimal(s) \in 100..999

\* a number: one digit or more, and digits only
LegalNumber(s) == s # <<>> /\ \A i \in 1..Len(s) : s[i] \in Digits

\* the inputs C7 is about
BadInput ==
    \/ file.kind = "malformed"
    \/ args.statuscodes.set
       /\ \E i \in 1..Len(args.statuscodes.val) :
             ~LegalStatus(args.statuscodes.val[i])
    \/ args.threads.set /\ ~LegalNumber(args.threads.val)
    \/ args.timeout.set /\ ~LegalNumber(args.timeout.val)

FirstColon(spec) == FirstIn(spec, {":"})
DocumentedName(spec) == Trim(SubSeq(spec, 1, FirstColon(spec) - 1))
DocumentedValue(spec) == Trim(Drop(spec, FirstColon(spec)))

\* C8: every header spec of the command line is stored under the text before
\* its first colon, with the whole remainder after that colon as the value,
\* both trimmed (a later spec of the same name replacing an earlier one).
C8_HeaderSplitOnFirstColonOnly ==
    (started /\ outcome = "returned" /\ args.headers.set) =>
        \A i \in 1..Len(args.headers.val) :
            (\A j \in (i + 1)..Len(args.headers.val) :
                 DocumentedName(args.headers.val[j])
                     # DocumentedName(args.headers.val[i]))
            => Lookup(configuration.headers,
                      DocumentedName(args.headers.val[i]))
                   = {DocumentedValue(args.headers.val[i])}

\* C11: whenever formatted_urls() returns a list, the list holds at least one
\* URL, and the first is the one format() gives for the bare word.
C11_AtLeastTheBareForm ==
    (op = "formatted_urls" /\ result.ok) =>
        /\ Len(urls) >= 1
        /\ Format(target, config, word, None).ok
        /\ urls[1] = Format(target, config, word, None).url

\* C12 as stated: normalize() returns a string that ends in '/', and the
\* target with one more slash at its end normalizes to the same string,
\* whatever the target is.
C12_OneMoreSlashSameKey ==
    op = "normalize" =>
        /\ EndsWith(result.str, <<"/">>)
        /\ result.str = Normalize(target \o <<"/">>)

\* C12: normalize() returns a string that ends in '/', and a target that does
\* not end in '/' normalizes to the same string as that target with one slash
\* at its end.
C12_SlashlessTargetSameKey ==
    op = "normalize" =>
        /\ EndsWith(result.str, <<"/">>)
        /\ ~EndsWith(target, <<"/">>) =>
              result.str = Normalize(target \o <<"/">>)

C12_Witness ==
    /\ op = "normalize"
    /\ target = HTTP \o <<":","/","/","h","/","a">>
    /\ result.str = target \o <<"/">>

\* the path components of a parsed target: the segments of its path, a last
\* empty one (what follows a trailing slash) not counted
Components(u) ==
    LET segs == Split(u.path, {"/"})
        named == IF segs[Len(segs)] = <<>>
                 THEN SubSeq(segs, 1, Len(segs) - 1) ELSE segs
    IN  IF StartsWith(u.path, <<"/">>) THEN Len(named) - 1 ELSE Len(named)

\* C13: for a target that parses to a URL with path segments, n of them
\* path components, depth() returns n+1, the same for the target with and
\* without a slash at its end, and the same for the normalized target.
C13_DepthIsComponentsPlusOne ==
    (/\ op = "depth"
     /\ UrlParse(target).ok
     /\ PathSegments(UrlParse(target).url).some) =>
        /\ result.ok
        /\ result.depth = Components(UrlParse(target).url) + 1
        /\ ~EndsWith(target, <<"/">>) => Depth(target \o <<"/">>) = result
        /\ Depth(Normalize(target)) = result

\* C14: format() of the empty word with no extension returns the target
\* itself: authority and path are those of the target, and with no query
\* pairs configured the URL is the parsed target, add_slash set or not.
C14_EmptyWordIsTheTarget ==
    (op = "format" /\ word = <<>> /\ ~extension.some /\ result.ok) =>
        /\ Authority(result.url) = Authority(UrlParse(target).url)
        /\ result.url.path = UrlParse(target).url.path
        /\ config.queries = <<>> => result.url = UrlParse(target).url

C17_AuthorityKeptInEveryBranch ==
    (op = "format" /\ result.ok) =>
        Authority(result.url)
            = Authority(UrlParse(EffectiveBase(target, word)).url)

\* C15: Configuration::new runs once at most for CONFIGURATION, however the
\* workers' first reads interleave; the stored value is the one it returned
\* and stays that; every value any worker has ever read is that one value.
C15_BuiltOnceAndNeverChanged ==
    /\ Len(built) <= 1
    /\ started => (Len(built) = 1 <=> outcome = "returned")
    /\ once = "complete" => (Len(built) = 1 /\ configuration = built[1])
    /\ \A w \in Workers :
          /\ seen[w] # {} => Len(built) = 1 /\ seen[w] = {built[1]}
          /\ pc[w] = "reading" => once = "complete"

C15_Witness ==
    /\ Len(built) = 1
    /\ args.threads.set
    /\ configuration.threads = 10
    /\ \A w \in Workers : seen[w] = {configuration}
    /\ \E w \in Workers : pc[w] = "reading"
====
